---- MODULE Spec2Model ----
(***************************************************************************)
(* The frame presentation loop of src/main.rs (fn main), as a state        *)
(* machine.  The Vulkan objects the loop holds (swapchain, images,         *)
(* framebuffers, dynamic state, the boxed GpuFuture) are the variables;    *)
(* the results the driver and the window system hand back (recreate,       *)
(* acquire, flush results, the surface's current extent, window events)    *)
(* are chosen nondeterministically.                                        *)
(***************************************************************************)
EXTENDS Integers, Sequences, FiniteSets, TLC

VARIABLES
    pc,                  \* position of the control thread in main's loop
    iter,                \* number of loop iterations started
    surface_extent,      \* caps.current_extent reported by the surface (Option)
    events,              \* window events queued for events_loop.poll_events
    dimensions,          \* let mut dimensions
    swapchain,           \* let mut swapchain
    images,              \* let mut images
    framebuffers,        \* let mut framebuffers : Option<Vec<..>>
    recreate_swapchain,  \* let mut recreate_swapchain
    previous_frame_end,  \* let mut previous_frame_end : Box<GpuFuture>
    dynamic_state,       \* let mut dynamic_state
    image_num,           \* loop-local image_num (Option)
    acquire_future,      \* loop-local acquire_future (Option)
    future,              \* loop-local future chain awaiting its flush (Option)
    next_token,          \* identity given to the next GpuFuture created
    submissions,         \* the last two submissions made by then_execute
    submitted,           \* number of submissions made by then_execute
    consumed,            \* the futures moved into join() so far
    presented,           \* number of flushes that returned Ok
    replaced,            \* number of assignments to previous_frame_end
    printed,             \* number of println! of a flush error
    prev_steps,          \* steps of the iteration before the current one
    steps,               \* steps of the current (or just ended) iteration
    iter_start,          \* the bindings and counters at iteration start
    run                  \* the iterations in a row that presented a frame

\* the window system's state
window_vars == <<surface_extent, events>>

\* the mutable bindings of main that outlive an iteration
chain_vars == <<dimensions, swapchain, images, framebuffers, dynamic_state>>

\* the bindings local to one iteration
local_vars == <<image_num, acquire_future, future>>

\* the record of what the loop has done
log_vars == <<submissions, submitted, consumed, presented, replaced, printed>>

\* the record of the iteration under way
iter_vars == <<iter, prev_steps, iter_start>>

program_vars == <<pc, chain_vars, recreate_swapchain, previous_frame_end,
                  local_vars, next_token, log_vars, iter_vars, steps, run>>

vars == <<window_vars, program_vars>>

----------------------------------------------------------------------------
(* Bounds of the model *)

MaxIter == 3
MaxEvents == 1

(* Program constants *)

DefaultWidth == 1024
DefaultHeight == 768
F32MantissaBits == 24

----------------------------------------------------------------------------
(* Values *)

Some(v) == [some |-> TRUE, v |-> v]
NoExtent == [some |-> FALSE, v |-> <<0, 0>>]
NoFramebuffers == [some |-> FALSE, v |-> <<>>]
NoIndex == [some |-> FALSE, v |-> 0]
NoImage == [gen |-> 0, index |-> 0]
NoToken == [some |-> FALSE, v |-> [kind |-> "none", id |-> 0, image |-> NoImage]]
NoFuture == [some |-> FALSE,
             v |-> [wait_prev |-> [kind |-> "none", id |-> 0],
                    wait_acquire |-> NoToken.v]]

\* extents a surface reports; an indeterminate extent is NoExtent
Extents == {<<800, 600>>, <<400, 300>>}
SurfaceExtents == {Some(e) : e \in Extents} \cup {NoExtent}
\* number of images the driver creates for a chain
ImageCounts == {2, 3}
EventKinds == {"CloseRequested", "Resized", "Other"}

\* the box left behind once previous_frame_end has been moved into join()
Moved == [kind |-> "moved", id |-> 0]

RECURSIVE Pow2(_)
Pow2(n) == IF n = 0 THEN 1 ELSE 2 * Pow2(n - 1)

RECURSIVE Log2Floor(_)
Log2Floor(n) == IF n < 2 THEN 0 ELSE 1 + Log2Floor(n \div 2)

\* `n as f32` for an unsigned n: exact up to 2^24, then round to nearest even
AsF32(n) ==
    IF n < Pow2(F32MantissaBits) THEN n
    ELSE LET ulp == Pow2(Log2Floor(n) - (F32MantissaBits - 1))
             q == n \div ulp
             r == n % ulp
         IN IF 2 * r > ulp \/ (2 * r = ulp /\ q % 2 = 1)
              THEN (q + 1) * ulp
              ELSE q * ulp

\* caps.current_extent.unwrap_or([1024, 768])
UnwrapOrDefault(ext) ==
    IF ext.some THEN ext.v ELSE <<DefaultWidth, DefaultHeight>>

\* vec![Viewport { origin, dimensions: [d[0] as f32, d[1] as f32], depth_range }]
ViewportOf(d) ==
    [origin |-> <<0, 0>>, dimensions |-> <<AsF32(d[1]), AsF32(d[2])>>]

\* Swapchain::new / recreate_with_dimension: a chain and its images
NewChain(gen, d, count) == [gen |-> gen, extent |-> d, count |-> count]
ImagesOf(chain) == [i \in 1..chain.count |-> [gen |-> chain.gen, index |-> i - 1]]

\* images.iter().map(|image| Framebuffer::start(..).add(image)..build()).collect()
BuildFramebuffers(imgs) == [i \in 1..Len(imgs) |-> [image |-> imgs[i]]]

\* if framebuffers.is_none() { framebuffers = Some(build) }
EnsureFramebuffers(fbs, imgs) ==
    IF fbs.some THEN fbs ELSE Some(BuildFramebuffers(imgs))

\* now(device.clone())
NowToken(id) == [kind |-> "now", id |-> id]
\* the FenceSignalFuture returned by then_signal_fence_and_flush
FenceToken(id) == [kind |-> "fence", id |-> id]
\* the SwapchainAcquireFuture returned by acquire_next_image
AcquireToken(id, img) == [kind |-> "acquire", id |-> id, image |-> img]

Last(s) == s[Len(s)]

----------------------------------------------------------------------------
(* Initial state: main up to the loop, every expect/unwrap having succeeded *)

Init ==
    /\ pc = "top"
    /\ iter = 0
    /\ surface_extent \in SurfaceExtents
    /\ events = <<>>
    /\ dimensions = UnwrapOrDefault(surface_extent)
    /\ \E count \in ImageCounts :
          /\ swapchain = NewChain(0, dimensions, count)
          /\ images = ImagesOf(swapchain)
    /\ framebuffers = NoFramebuffers
    /\ recreate_swapchain = FALSE
    /\ previous_frame_end = NowToken(0)
    /\ dynamic_state = [viewports |-> ViewportOf(dimensions)]
    /\ image_num = NoIndex
    /\ acquire_future = NoToken
    /\ future = NoFuture
    /\ next_token = 1
    /\ submissions = <<>>
    /\ submitted = 0
    /\ consumed = {}
    /\ presented = 0
    /\ replaced = 0
    /\ printed = 0
    /\ prev_steps = <<>>
    /\ steps = <<>>
    /\ iter_start = [token |-> NowToken(0), presented |-> 0, replaced |-> 0,
                     submitted |-> 0, printed |-> 0,
                     generation |-> 0, built |-> FALSE, flag |-> FALSE]
    /\ run = [len |-> 0, presented |-> 0, replaced |-> 0]

----------------------------------------------------------------------------
(* The window system.  The loop reads the surface extent only at its head  *)
(* and the event queue only in poll_events, so what the window system does *)
(* while an iteration is under way is seen as done at one of these points. *)

Observing == pc \in {"top", "poll"}

\* the user resizes the window: the surface reports another current extent
\* and a Resized event is queued
Resize(e) ==
    /\ Observing
    /\ Len(events) < MaxEvents
    /\ e # surface_extent
    /\ surface_extent' = e
    /\ events' = Append(events, "Resized")
    /\ UNCHANGED program_vars

\* any other window event is queued (a close request among them)
WindowEvent(ev) ==
    /\ Observing
    /\ Len(events) < MaxEvents
    /\ events' = Append(events, ev)
    /\ UNCHANGED <<surface_extent, program_vars>>

----------------------------------------------------------------------------
(* The loop, lines 153-252 *)

\* an iteration with no recreation whose acquire, execute and flush succeeded
Clean(trace) ==
    /\ Len(trace) = 5
    /\ SubSeq(trace, 1, 4) = <<"no_recreate", "acquire_ok", "execute", "flush_ok">>
    /\ trace[5] \in {"poll", "poll_close"}

\* the iteration ending with the steps `trace` extends the run of iterations
\* that presented a frame, or ends it
RunAfter(trace) ==
    IF Clean(trace)
      THEN [run EXCEPT !.len = @ + 1]
      ELSE [len |-> 0, presented |-> presented, replaced |-> replaced]

\* control reaches `to`: back at the loop head or returned, the iteration is over
Goto(to, trace) ==
    /\ pc' = to
    /\ steps' = trace
    /\ run' = IF to \in {"top", "terminated"} THEN RunAfter(trace) ELSE run

\* the head of an iteration: previous_frame_end.cleanup_finished() frees what
\* the GPU has finished with and changes nothing the loop reads
BeginWith(trace, to) ==
    /\ pc = "top"
    /\ iter < MaxIter
    /\ iter' = iter + 1
    /\ prev_steps' = steps
    /\ Goto(to, trace)
    /\ iter_start' = [token |-> previous_frame_end, presented |-> presented,
                      replaced |-> replaced, submitted |-> submitted,
                      printed |-> printed,
                      generation |-> swapchain.gen,
                      built |-> framebuffers.some,
                      flag |-> recreate_swapchain]

\* an iteration whose first step takes control to `to`
BeginIteration(step, to) == BeginWith(<<step>>, to)

\* a later step of the iteration under way
Step(at, step, to) ==
    /\ pc = at
    /\ Goto(to, Append(steps, step))
    /\ UNCHANGED iter_vars

\* if recreate_swapchain { .. } not taken; framebuffers built if unset
NoRecreate ==
    /\ BeginIteration("no_recreate", "acquire")
    /\ ~recreate_swapchain
    /\ framebuffers' = EnsureFramebuffers(framebuffers, images)
    /\ UNCHANGED <<window_vars, dimensions, swapchain, images, dynamic_state,
                   recreate_swapchain, previous_frame_end, local_vars,
                   next_token, log_vars>>

\* if recreate_swapchain { .. } not taken and framebuffers is None: .add(image)
\* or .build() returned Err for an image, .unwrap() panics (lines 190, 192)
NoRecreateFramebufferFatal ==
    /\ BeginWith(<<"no_recreate", "framebuffer_fatal">>, "aborted")
    /\ ~recreate_swapchain
    /\ ~framebuffers.some
    /\ UNCHANGED <<window_vars, chain_vars, recreate_swapchain,
                   previous_frame_end, local_vars, next_token, log_vars>>

\* RecreateOk without `framebuffers = None`: the old framebuffers are kept
RecreateOk_KeepsFramebuffers(count) ==
    /\ BeginIteration("recreate_ok", "acquire")
    /\ recreate_swapchain
    /\ surface_extent.some
    /\ dimensions' = surface_extent.v
    /\ swapchain' = NewChain(swapchain.gen + 1, dimensions', count)
    /\ images' = ImagesOf(swapchain')
    /\ framebuffers' = EnsureFramebuffers(framebuffers, images')
    /\ dynamic_state' = [dynamic_state EXCEPT !.viewports = ViewportOf(dimensions')]
    /\ recreate_swapchain' = FALSE
    /\ UNCHANGED <<window_vars, previous_frame_end, local_vars, next_token,
                   log_vars>>

\* RecreateOk without the assignment to dynamic_state.viewports
RecreateOk_KeepsViewport(count) ==
    /\ BeginIteration("recreate_ok", "acquire")
    /\ recreate_swapchain
    /\ surface_extent.some
    /\ dimensions' = surface_extent.v
    /\ swapchain' = NewChain(swapchain.gen + 1, dimensions', count)
    /\ images' = ImagesOf(swapchain')
    /\ framebuffers' = EnsureFramebuffers(NoFramebuffers, images')
    /\ recreate_swapchain' = FALSE
    /\ UNCHANGED <<window_vars, dynamic_state, previous_frame_end, local_vars,
                   next_token, log_vars>>

\* recreate_with_dimension(dimensions) returned Ok(r)
RecreateOk(count) ==
    /\ BeginIteration("recreate_ok", "acquire")
    /\ recreate_swapchain
    /\ surface_extent.some
    /\ dimensions' = surface_extent.v
    /\ swapchain' = NewChain(swapchain.gen + 1, dimensions', count)
    /\ images' = ImagesOf(swapchain')
    /\ framebuffers' = EnsureFramebuffers(NoFramebuffers, images')
    /\ dynamic_state' = [dynamic_state EXCEPT !.viewports = ViewportOf(dimensions')]
    /\ recreate_swapchain' = FALSE
    /\ UNCHANGED <<window_vars, previous_frame_end, local_vars, next_token,
                   log_vars>>

\* recreate_with_dimension returned Ok(r) and lines 172-183 ran; then .add(image)
\* or .build() returned Err while the framebuffers were rebuilt (lines 190, 192)
RecreateOkFramebufferFatal(count) ==
    /\ BeginWith(<<"recreate_ok", "framebuffer_fatal">>, "aborted")
    /\ recreate_swapchain
    /\ surface_extent.some
    /\ dimensions' = surface_extent.v
    /\ swapchain' = NewChain(swapchain.gen + 1, dimensions', count)
    /\ images' = ImagesOf(swapchain')
    /\ framebuffers' = NoFramebuffers
    /\ dynamic_state' = [dynamic_state EXCEPT !.viewports = ViewportOf(dimensions')]
    /\ recreate_swapchain' = FALSE
    /\ UNCHANGED <<window_vars, previous_frame_end, local_vars, next_token,
                   log_vars>>

\* RecreateUnsupported without `continue`: the iteration goes on to acquire
RecreateUnsupported_FallsThrough ==
    /\ BeginIteration("recreate_unsupported", "acquire")
    /\ recreate_swapchain
    /\ surface_extent.some
    /\ dimensions' = surface_extent.v
    /\ framebuffers' = EnsureFramebuffers(framebuffers, images)
    /\ UNCHANGED <<window_vars, swapchain, images, dynamic_state,
                   recreate_swapchain, previous_frame_end, local_vars,
                   next_token, log_vars>>

\* RecreateUnsupported with `framebuffers = None` done before the match
RecreateUnsupported_DropsFramebuffers ==
    /\ BeginIteration("recreate_unsupported", "top")
    /\ recreate_swapchain
    /\ surface_extent.some
    /\ dimensions' = surface_extent.v
    /\ framebuffers' = NoFramebuffers
    /\ UNCHANGED <<window_vars, swapchain, images, dynamic_state,
                   recreate_swapchain, previous_frame_end, local_vars,
                   next_token, log_vars>>

\* recreate_with_dimension returned Err(UnsupportedDimensions): continue
RecreateUnsupported ==
    /\ BeginIteration("recreate_unsupported", "top")
    /\ recreate_swapchain
    /\ surface_extent.some
    /\ dimensions' = surface_extent.v
    /\ UNCHANGED <<window_vars, swapchain, images, framebuffers, dynamic_state,
                   recreate_swapchain, previous_frame_end, local_vars,
                   next_token, log_vars>>

\* recreate_with_dimension returned any other error: panic!
RecreateFatal ==
    /\ BeginIteration("recreate_fatal", "aborted")
    /\ recreate_swapchain
    /\ surface_extent.some
    /\ dimensions' = surface_extent.v
    /\ UNCHANGED <<window_vars, swapchain, images, framebuffers, dynamic_state,
                   recreate_swapchain, previous_frame_end, local_vars,
                   next_token, log_vars>>

\* surface.capabilities(physical) returned Err: .expect() panics (line 159)
\* before dimensions is assigned
CapabilitiesFatal ==
    /\ BeginIteration("capabilities_fatal", "aborted")
    /\ recreate_swapchain
    /\ UNCHANGED <<window_vars, chain_vars, recreate_swapchain,
                   previous_frame_end, local_vars, next_token, log_vars>>

\* capabilities() returned Ok and caps.current_extent is None: .unwrap() panics
\* (line 161) before recreate is called
ExtentFatal ==
    /\ BeginIteration("extent_fatal", "aborted")
    /\ recreate_swapchain
    /\ ~surface_extent.some
    /\ UNCHANGED <<window_vars, chain_vars, recreate_swapchain,
                   previous_frame_end, local_vars, next_token, log_vars>>

\* acquire_next_image returned Ok((image_num, acquire_future))
AcquireOk(i) ==
    /\ Step("acquire", "acquire_ok", "submit")
    /\ i \in 0..(swapchain.count - 1)
    /\ image_num' = Some(i)
    /\ acquire_future' = Some(AcquireToken(next_token, images[i + 1]))
    /\ next_token' = next_token + 1
    /\ UNCHANGED <<window_vars, chain_vars, recreate_swapchain,
                   previous_frame_end, future, log_vars>>

\* AcquireOutOfDate treated like the flush arm: the token is reset to now()
AcquireOutOfDate_ResetsToken ==
    /\ Step("acquire", "acquire_out_of_date", "top")
    /\ recreate_swapchain' = TRUE
    /\ previous_frame_end' = NowToken(next_token)
    /\ next_token' = next_token + 1
    /\ replaced' = replaced + 1
    /\ UNCHANGED <<window_vars, chain_vars, local_vars, submissions,
                   submitted, consumed, presented, printed>>

\* AcquireOutOfDate without `recreate_swapchain = true`
AcquireOutOfDate_FlagNotSet ==
    /\ Step("acquire", "acquire_out_of_date", "top")
    /\ UNCHANGED <<window_vars, chain_vars, recreate_swapchain,
                   previous_frame_end, local_vars, next_token, log_vars>>

\* acquire_next_image returned Err(AcquireError::OutOfDate): flag and continue
AcquireOutOfDate ==
    /\ Step("acquire", "acquire_out_of_date", "top")
    /\ recreate_swapchain' = TRUE
    /\ UNCHANGED <<window_vars, chain_vars, previous_frame_end, local_vars,
                   next_token, log_vars>>

\* AcquireFatal handled like OutOfDate: flag and continue
AcquireFatal_Continues ==
    /\ Step("acquire", "acquire_fatal", "top")
    /\ recreate_swapchain' = TRUE
    /\ UNCHANGED <<window_vars, chain_vars, previous_frame_end, local_vars,
                   next_token, log_vars>>

\* acquire_next_image returned any other error: panic!
AcquireFatal ==
    /\ Step("acquire", "acquire_fatal", "aborted")
    /\ UNCHANGED <<window_vars, chain_vars, recreate_swapchain,
                   previous_frame_end, local_vars, next_token, log_vars>>

\* the command buffer recorded at lines 206-221
CommandBuffer ==
    [framebuffer |-> framebuffers.v[image_num.v + 1],
     viewports |-> dynamic_state.viewports]

\* Join with the previous frame's token left out of the wait
Join_DropsPrevious(prev, acq) == [wait_prev |-> NowToken(0), wait_acquire |-> acq]

\* previous_frame_end.join(acquire_future): what the submission waits on
Join(prev, acq) == [wait_prev |-> prev, wait_acquire |-> acq]

\* the log keeps the submission before this one and this one
Logged(sub) ==
    IF submissions = <<>> THEN <<sub>> ELSE <<Last(submissions), sub>>

\* lines 206-227: record the command buffer, then
\* previous_frame_end.join(acquire_future).then_execute(..).unwrap()
\*     .then_swapchain_present(queue, swapchain, image_num)
Execute ==
    /\ Step("submit", "execute", "flush")
    /\ future' = Some(Join(previous_frame_end, acquire_future.v))
    /\ submissions' = Logged([iter |-> iter,
                              wait_prev |-> future'.v.wait_prev,
                              wait_acquire |-> future'.v.wait_acquire,
                              command_buffer |-> CommandBuffer,
                              acquired_from |-> acquire_future.v.image.gen,
                              present_chain |-> swapchain.gen,
                              present_image |-> image_num.v,
                              flush |-> "pending",
                              signal |-> Moved])
    /\ submitted' = submitted + 1
    /\ consumed' = consumed \cup {previous_frame_end}
    /\ previous_frame_end' = Moved
    /\ acquire_future' = NoToken
    /\ UNCHANGED <<window_vars, chain_vars, recreate_swapchain, image_num,
                   next_token, presented, replaced, printed>>

\* one of the .unwrap() calls of lines 207-221 panics while the command buffer
\* is recorded: previous_frame_end has not been joined yet
CommandBufferFatal ==
    /\ Step("submit", "command_buffer_fatal", "aborted")
    /\ UNCHANGED <<window_vars, chain_vars, recreate_swapchain,
                   previous_frame_end, local_vars, next_token, log_vars>>

\* then_execute returned Err and .unwrap() panics (line 226): the join of line
\* 224 has already moved previous_frame_end and acquire_future
ExecuteFatal ==
    /\ Step("submit", "execute_fatal", "aborted")
    /\ consumed' = consumed \cup {previous_frame_end}
    /\ previous_frame_end' = Moved
    /\ acquire_future' = NoToken
    /\ UNCHANGED <<window_vars, chain_vars, recreate_swapchain, image_num,
                   future, next_token, submissions, submitted, presented,
                   replaced, printed>>

\* the flush result recorded on the submission it belongs to
Flushed(result, signal) ==
    [submissions EXCEPT ![Len(submissions)].flush = result,
                        ![Len(submissions)].signal = signal]

\* FlushOk putting back the token the submission consumed
FlushOk_KeepsToken ==
    /\ Step("flush", "flush_ok", "poll")
    /\ previous_frame_end' = future.v.wait_prev
    /\ next_token' = next_token + 1
    /\ replaced' = replaced + 1
    /\ presented' = presented + 1
    /\ submissions' = Flushed("ok", FenceToken(next_token))
    /\ future' = NoFuture
    /\ UNCHANGED <<window_vars, chain_vars, recreate_swapchain, image_num,
                   acquire_future, submitted, consumed, printed>>

\* then_signal_fence_and_flush() returned Ok(future)
FlushOk ==
    /\ Step("flush", "flush_ok", "poll")
    /\ previous_frame_end' = FenceToken(next_token)
    /\ next_token' = next_token + 1
    /\ replaced' = replaced + 1
    /\ presented' = presented + 1
    /\ submissions' = Flushed("ok", previous_frame_end')
    /\ future' = NoFuture
    /\ UNCHANGED <<window_vars, chain_vars, recreate_swapchain, image_num,
                   acquire_future, submitted, consumed, printed>>

\* FlushOutOfDate followed by `continue`: poll_events is skipped
FlushOutOfDate_Continues ==
    /\ Step("flush", "flush_out_of_date", "top")
    /\ recreate_swapchain' = TRUE
    /\ previous_frame_end' = NowToken(next_token)
    /\ next_token' = next_token + 1
    /\ replaced' = replaced + 1
    /\ submissions' = Flushed("out_of_date", Moved)
    /\ future' = NoFuture
    /\ UNCHANGED <<window_vars, chain_vars, image_num, acquire_future,
                   submitted, consumed, presented, printed>>

\* FlushOutOfDate without `recreate_swapchain = true`
FlushOutOfDate_FlagNotSet ==
    /\ Step("flush", "flush_out_of_date", "poll")
    /\ previous_frame_end' = NowToken(next_token)
    /\ next_token' = next_token + 1
    /\ replaced' = replaced + 1
    /\ submissions' = Flushed("out_of_date", Moved)
    /\ future' = NoFuture
    /\ UNCHANGED <<window_vars, chain_vars, recreate_swapchain, image_num,
                   acquire_future, submitted, consumed, presented, printed>>

\* then_signal_fence_and_flush() returned Err(FlushError::OutOfDate)
FlushOutOfDate ==
    /\ Step("flush", "flush_out_of_date", "poll")
    /\ recreate_swapchain' = TRUE
    /\ previous_frame_end' = NowToken(next_token)
    /\ next_token' = next_token + 1
    /\ replaced' = replaced + 1
    /\ submissions' = Flushed("out_of_date", Moved)
    /\ future' = NoFuture
    /\ UNCHANGED <<window_vars, chain_vars, image_num, acquire_future,
                   submitted, consumed, presented, printed>>

\* FlushError handled like OutOfDate: the chain is flagged stale
FlushError_SetsFlag ==
    /\ Step("flush", "flush_error", "poll")
    /\ recreate_swapchain' = TRUE
    /\ printed' = printed + 1
    /\ previous_frame_end' = NowToken(next_token)
    /\ next_token' = next_token + 1
    /\ replaced' = replaced + 1
    /\ submissions' = Flushed("error", Moved)
    /\ future' = NoFuture
    /\ UNCHANGED <<window_vars, chain_vars, image_num, acquire_future,
                   submitted, consumed, presented>>

\* FlushError putting back the token the submission consumed
FlushError_KeepsConsumedToken ==
    /\ Step("flush", "flush_error", "poll")
    /\ printed' = printed + 1
    /\ previous_frame_end' = future.v.wait_prev
    /\ next_token' = next_token + 1
    /\ replaced' = replaced + 1
    /\ submissions' = Flushed("error", Moved)
    /\ future' = NoFuture
    /\ UNCHANGED <<window_vars, chain_vars, recreate_swapchain, image_num,
                   acquire_future, submitted, consumed, presented>>

\* then_signal_fence_and_flush() returned any other error
FlushError ==
    /\ Step("flush", "flush_error", "poll")
    /\ printed' = printed + 1
    /\ previous_frame_end' = NowToken(next_token)
    /\ next_token' = next_token + 1
    /\ replaced' = replaced + 1
    /\ submissions' = Flushed("error", Moved)
    /\ future' = NoFuture
    /\ UNCHANGED <<window_vars, chain_vars, recreate_swapchain, image_num,
                   acquire_future, submitted, consumed, presented>>

\* then_signal_fence_and_flush() returned any other error and stdout cannot be
\* written: println! panics (line 239) before previous_frame_end is assigned
FlushErrorPrintFatal ==
    /\ pc = "flush"
    /\ Goto("aborted", steps \o <<"flush_error", "print_fatal">>)
    /\ submissions' = Flushed("error", Moved)
    /\ future' = NoFuture
    /\ UNCHANGED <<window_vars, chain_vars, recreate_swapchain,
                   previous_frame_end, image_num, acquire_future, next_token,
                   submitted, consumed, presented, replaced, printed,
                   iter_vars>>

\* the closure of poll_events applied to every queued event
CloseSeen(evs) == \E k \in 1..Len(evs) : evs[k] = "CloseRequested"

\* PollEvents without `if done { return; }`
PollEvents_NoReturn ==
    /\ Step("poll", IF CloseSeen(events) THEN "poll_close" ELSE "poll", "top")
    /\ events' = <<>>
    /\ image_num' = NoIndex
    /\ UNCHANGED <<surface_extent, chain_vars, recreate_swapchain,
                   previous_frame_end, acquire_future, future, next_token,
                   log_vars>>

\* lines 244-251: let mut done = false; poll_events(..); if done { return; }
PollEvents ==
    /\ LET done == CloseSeen(events)
       IN IF done THEN Step("poll", "poll_close", "terminated")
                  ELSE Step("poll", "poll", "top")
    /\ events' = <<>>
    /\ image_num' = NoIndex
    /\ UNCHANGED <<surface_extent, chain_vars, recreate_swapchain,
                   previous_frame_end, acquire_future, future, next_token,
                   log_vars>>

Next ==
    \/ \E e \in SurfaceExtents : Resize(e)
    \/ \E ev \in EventKinds \ {"Resized"} : WindowEvent(ev)
    \/ NoRecreate
    \/ NoRecreateFramebufferFatal
    \/ \E count \in ImageCounts : RecreateOk(count)
    \/ \E count \in ImageCounts : RecreateOkFramebufferFatal(count)
    \/ RecreateUnsupported
    \/ RecreateFatal
    \/ CapabilitiesFatal
    \/ ExtentFatal
    \/ \E i \in 0..2 : AcquireOk(i)
    \/ AcquireOutOfDate
    \/ AcquireFatal
    \/ CommandBufferFatal
    \/ Execute
    \/ ExecuteFatal
    \/ FlushOk
    \/ FlushOutOfDate
    \/ FlushError
    \/ FlushErrorPrintFatal
    \/ PollEvents

Spec == Init /\ [][Next]_vars

\* one step of the thread running `loop { .. }` (lines 153-252): an arm of the
\* iteration the thread is in, whichever result its calls return
LoopStep ==
    \/ NoRecreate
    \/ NoRecreateFramebufferFatal
    \/ \E count \in ImageCounts : RecreateOk(count)
    \/ \E count \in ImageCounts : RecreateOkFramebufferFatal(count)
    \/ RecreateUnsupported
    \/ RecreateFatal
    \/ CapabilitiesFatal
    \/ ExtentFatal
    \/ \E i \in 0..2 : AcquireOk(i)
    \/ AcquireOutOfDate
    \/ AcquireFatal
    \/ CommandBufferFatal
    \/ Execute
    \/ ExecuteFatal
    \/ FlushOk
    \/ FlushOutOfDate
    \/ FlushError
    \/ FlushErrorPrintFatal
    \/ PollEvents

\* the loop never blocks for good: the thread keeps taking steps while it has
\* one to take; which result a call returns is left open
FairSpec == Spec /\ WF_vars(LoopStep)

----------------------------------------------------------------------------
(* Vocabulary of the properties *)

Range(s) == {s[k] : k \in 1..Len(s)}

\* the steps an iteration can start with when it takes the recreation branch
RecreateBlock == {"recreate_ok", "recreate_unsupported", "recreate_fatal",
                  "capabilities_fatal", "extent_fatal"}
AcquireSteps == {"acquire_ok", "acquire_out_of_date", "acquire_fatal"}
FlushSteps == {"flush_ok", "flush_out_of_date", "flush_error"}

\* the loop is between two iterations (or has returned after one)
AtBoundary == pc \in {"top", "terminated"}

\* an acquisition attempted in the iteration under way came after a
\* recreate_with_dimension call of that same iteration that succeeded
RecreatedBeforeAcquire ==
    /\ steps[1] \in RecreateBlock
    /\ \A k \in 1..Len(steps) :
          steps[k] \in AcquireSteps => (k > 1 /\ steps[1] = "recreate_ok")

\* the token held now was created after every token a submission consumed
FreshToken(kind) ==
    /\ previous_frame_end.kind = kind
    /\ previous_frame_end \notin consumed
    /\ previous_frame_end.id = next_token - 1

----------------------------------------------------------------------------
(* C1: when acquire_next_image fails with OutOfDate, the iteration submits *)
(* nothing and presents nothing, recreate_swapchain is set, and in the     *)
(* iteration that follows no acquisition is attempted before the           *)
(* recreation branch has been taken and recreate_with_dimension succeeded. *)

C1_AcquireOutOfDate ==
    /\ (steps # <<>> /\ Last(steps) = "acquire_out_of_date") =>
          /\ pc = "top"
          /\ recreate_swapchain
          /\ submitted = iter_start.submitted
          /\ presented = iter_start.presented
          /\ Range(steps) \cap ({"execute"} \cup FlushSteps) = {}
    /\ (prev_steps # <<>> /\ Last(prev_steps) = "acquire_out_of_date") =>
          RecreatedBeforeAcquire

C1_Witness ==
    /\ prev_steps # <<>>
    /\ Last(prev_steps) = "acquire_out_of_date"
    /\ steps = <<"recreate_ok", "acquire_ok">>

(* C2: when recreate_with_dimension fails with UnsupportedDimensions the   *)
(* chain, its images, the framebuffers and the viewports are what they     *)
(* were, recreate_swapchain stays set, control is back at the loop head    *)
(* (no abort), and the next iteration takes the recreation branch again.   *)

C2_UnsupportedKeepsState ==
    [][ /\ (iter' # iter /\ steps' = <<"recreate_unsupported">>) =>
              /\ UNCHANGED <<swapchain, images, framebuffers, dynamic_state>>
              /\ recreate_swapchain /\ recreate_swapchain'
              /\ pc' = "top"
        /\ (iter' # iter /\ steps = <<"recreate_unsupported">>) =>
              steps'[1] \in RecreateBlock ]_vars

C2_Witness ==
    /\ prev_steps = <<"recreate_unsupported">>
    /\ steps[1] = "recreate_ok"
    /\ swapchain.extent # <<DefaultWidth, DefaultHeight>>

(* C3: whenever an iteration reaches acquire_next_image, and at the end of *)
(* every iteration that ran to poll_events, framebuffers is Some, has one  *)
(* entry per image of the current chain, and entry i wraps image i.        *)

FramebuffersAligned ==
    /\ framebuffers.some
    /\ Len(framebuffers.v) = Len(images)
    /\ Len(images) = swapchain.count
    /\ \A k \in 1..Len(images) :
          /\ framebuffers.v[k].image = images[k]
          /\ images[k] = [gen |-> swapchain.gen, index |-> k - 1]

C3_FramebuffersMatchImages ==
    (\/ pc = "acquire"
     \/ (AtBoundary /\ steps # <<>> /\ Last(steps) \in {"poll", "poll_close"}))
        => FramebuffersAligned

C3_Witness ==
    /\ pc = "acquire"
    /\ swapchain.gen = 2
    /\ prev_steps # <<>>
    /\ Last(prev_steps) = "acquire_out_of_date"
    /\ Len(images) = 3

(* C4: at every iteration boundary the viewport dimensions are the extent  *)
(* the current chain was created with: the startup extent at first, the    *)
(* extent of the rebuilt chain after a recreation that succeeded, and the  *)
(* same as before after a recreation that failed.                          *)

ViewportMatchesChain ==
    /\ dynamic_state.viewports.dimensions[1] = swapchain.extent[1]
    /\ dynamic_state.viewports.dimensions[2] = swapchain.extent[2]

C4_ViewportMatchesExtent ==
    pc = "top" =>
        /\ ViewportMatchesChain
        /\ swapchain.extent = <<800, 600>> =>
              dynamic_state.viewports.dimensions = <<800, 600>>
        /\ swapchain.extent = <<400, 300>> =>
              dynamic_state.viewports.dimensions = <<400, 300>>

C4_Witness ==
    /\ pc = "top"
    /\ swapchain.gen = 1
    /\ "recreate_ok" \in Range(prev_steps)
    /\ steps = <<"recreate_unsupported">>
    /\ dimensions = <<800, 600>>
    /\ dynamic_state.viewports.dimensions = <<400, 300>>

(* C5: a run of N iterations in a row that take no recreation branch and   *)
(* whose acquire, execute and flush succeed presents exactly N frames and  *)
(* assigns previous_frame_end exactly N times; each of them moves the      *)
(* token it started with into its one submission and installs the fence    *)
(* token of its own flush, which no submission has consumed.               *)

C5_CleanRunCounts ==
    AtBoundary =>
        /\ presented - run.presented = run.len
        /\ replaced - run.replaced = run.len
        /\ Clean(steps) =>
              /\ presented = iter_start.presented + 1
              /\ replaced = iter_start.replaced + 1
              /\ submitted = iter_start.submitted + 1
              /\ Last(submissions).iter = iter
              /\ Last(submissions).wait_prev = iter_start.token
              /\ iter_start.token \in consumed
              /\ previous_frame_end = Last(submissions).signal
              /\ previous_frame_end # iter_start.token
              /\ FreshToken("fence")
              /\ Cardinality(consumed) = submitted

C5_Witness ==
    /\ pc = "top"
    /\ run.len = 3
    /\ run.presented = 0
    /\ presented = 3

(* C6: when poll_events finds a close request, the loop returns in that   *)
(* same iteration, and once it has returned nothing the program owns       *)
(* changes any more: no acquisition, submission, present or recreation.    *)

C6_CloseTerminates ==
    [][ /\ (pc = "poll" /\ CloseSeen(events) /\ pc' # pc) =>
              /\ pc' = "terminated"
              /\ UNCHANGED <<iter, submitted, presented, swapchain>>
        /\ "poll_close" \in Range(steps') => pc' = "terminated"
        /\ pc = "terminated" => UNCHANGED program_vars ]_vars

C6_Witness ==
    /\ pc = "terminated"
    /\ iter = 1
    /\ steps = <<"no_recreate", "acquire_ok", "execute", "flush_ok", "poll_close">>

(* C7: when the flush fails with OutOfDate, recreate_swapchain is set, the *)
(* token installed is a new now() token (not the one the submission        *)
(* consumed, and not a token of the failed flush), control goes on to      *)
(* poll_events (no abort), and in the next iteration no acquisition is     *)
(* attempted before recreate_with_dimension has succeeded.                 *)

C7_FlushOutOfDate ==
    /\ "flush_out_of_date" \in Range(steps) =>
          /\ pc \in {"poll", "top", "terminated"}
          /\ recreate_swapchain
          /\ FreshToken("now")
          /\ previous_frame_end # iter_start.token
          /\ Last(submissions).signal = Moved
    /\ "flush_out_of_date" \in Range(prev_steps) => RecreatedBeforeAcquire

C7_Witness ==
    /\ "flush_out_of_date" \in Range(prev_steps)
    /\ steps = <<"recreate_ok", "acquire_ok">>

(* C8: when the flush fails with another error, the error is printed once, *)
(* the token installed is a new now() token, recreate_swapchain is left as *)
(* it was, control goes on to poll_events (no abort), the one submitted    *)
(* frame is not presented, and unless a close was requested the next       *)
(* iteration starts without recreation.                                    *)

C8_AfterFlushError ==
    /\ "flush_error" \in Range(steps) =>
          /\ pc \in {"poll", "top", "terminated"}
          /\ printed = iter_start.printed + 1
          /\ FreshToken("now")
          /\ ~recreate_swapchain
          /\ submitted = iter_start.submitted + 1
          /\ presented = iter_start.presented
    /\ "flush_error" \in Range(prev_steps) =>
          /\ Last(prev_steps) = "poll"
          /\ steps[1] = "no_recreate"

C8_FlushErrorIsSoft ==
    [][ /\ (pc = "flush" /\ pc' # pc /\ Last(steps') = "flush_error") =>
              /\ UNCHANGED recreate_swapchain
              /\ pc' = "poll"
              /\ printed' = printed + 1
        /\ C8_AfterFlushError' ]_vars

C8_Witness ==
    /\ "flush_error" \in Range(prev_steps)
    /\ steps = <<"no_recreate", "acquire_ok", "execute", "flush_ok", "poll">>
    /\ presented = 1
    /\ submitted = 2

(* C9: between iterations previous_frame_end always holds a token, and one *)
(* that no submission has consumed: an iteration that submitted has        *)
(* replaced the token it consumed by the fence token of its flush or by a  *)
(* new now() token, and an iteration cut short before the submission has   *)
(* left the token as it was.  The token is moved out only between the join *)
(* and the flush match, or in the abort of a panic of then_execute or of    *)
(* println!, after which no iteration boundary is reached.                 *)

C9_OneCurrentToken ==
    /\ previous_frame_end = Moved =>
          \/ pc = "flush"
          \/ pc = "aborted" /\ Last(steps) \in {"execute_fatal", "print_fatal"}
    /\ pc \in {"top", "poll", "terminated"} =>
          /\ previous_frame_end.kind \in {"now", "fence"}
          /\ previous_frame_end \notin consumed
          /\ IF submitted > iter_start.submitted
               THEN /\ iter_start.token \in consumed
                    /\ previous_frame_end # iter_start.token
                    /\ IF Last(submissions).flush = "ok"
                         THEN /\ FreshToken("fence")
                              /\ previous_frame_end = Last(submissions).signal
                         ELSE /\ FreshToken("now")
                              /\ Last(submissions).flush \in {"out_of_date", "error"}
               ELSE previous_frame_end = iter_start.token

C9_Witness ==
    /\ pc = "top"
    /\ prev_steps = <<"recreate_unsupported">>
    /\ "flush_error" \in Range(steps)
    /\ swapchain.gen = 1

(* C10: every submission waits on the join of the token current at that    *)
(* moment and the acquire future of the image it draws into and presents.  *)
(* As claimed: for every two consecutive submissions the later one waits   *)
(* on the completion token of the earlier one.                             *)

WaitsOnAcquiredImage(sub) ==
    /\ sub.wait_acquire.kind = "acquire"
    /\ sub.wait_acquire.image = [gen |-> sub.present_chain, index |-> sub.present_image]
    /\ sub.command_buffer.framebuffer.image = sub.wait_acquire.image

C10_OrderedAfterPrevious ==
    /\ \A k \in 1..Len(submissions) : WaitsOnAcquiredImage(submissions[k])
    /\ Len(submissions) = 2 =>
          /\ submissions[1].signal.kind = "fence"
          /\ submissions[2].wait_prev = submissions[1].signal

(* C10 as amended: the later of two consecutive submissions waits on the   *)
(* earlier one's completion token when the earlier flush succeeded; after  *)
(* a flush that failed it waits on a now() token created after that flush, *)
(* which orders it after nothing.                                          *)

C10_WaitsOnCurrentToken ==
    /\ \A k \in 1..Len(submissions) :
          /\ WaitsOnAcquiredImage(submissions[k])
          /\ submissions[k].wait_prev \in consumed
          /\ submissions[k].iter = iter => submissions[k].wait_prev = iter_start.token
    /\ submitted = 1 => submissions[1].wait_prev = NowToken(0)
    /\ Len(submissions) = 2 =>
          IF submissions[1].flush = "ok"
            THEN /\ submissions[1].signal.kind = "fence"
                 /\ submissions[2].wait_prev = submissions[1].signal
            ELSE /\ submissions[1].flush \in {"out_of_date", "error"}
                 /\ submissions[2].wait_prev.kind = "now"
                 /\ submissions[2].wait_prev.id > submissions[1].wait_acquire.id

C10_Witness ==
    /\ submitted = 3
    /\ submissions[1].flush = "error"
    /\ submissions[2].wait_prev.kind = "now"
    /\ submissions[2].flush = "ok"

(* C11: when the surface has reported another extent (a resize the last    *)
(* poll_events has been told of), the next iteration takes the recreation  *)
(* branch, whether or not acquire or flush returned OutOfDate.             *)

\* the last poll_events drained the Resized event of a resize that left the
\* surface with an extent other than the chain's
ResizeObserved ==
    /\ pc = "top"
    /\ steps # <<>>
    /\ Last(steps) = "poll"
    /\ "Resized" \notin Range(events)
    /\ surface_extent.some
    /\ surface_extent.v # swapchain.extent

C11_ResizeRecreates ==
    [][ (ResizeObserved /\ iter' # iter) => steps'[1] \in RecreateBlock ]_vars

(* C12: as claimed, every iteration ends with poll_events: whenever the    *)
(* loop is back at its head after an iteration, that iteration's last step *)
(* was the drain of the window events and the test for a close request.    *)

CutShortSteps == {"recreate_unsupported", "acquire_out_of_date"}
PollSteps == {"poll", "poll_close"}

C12_EveryIterationPolls ==
    (pc = "top" /\ steps # <<>>) => Last(steps) = "poll"

(* C12 as amended: an iteration that got as far as the flush drains the    *)
(* window events and tests for a close request exactly once, as its last   *)
(* step; an iteration cut short by UnsupportedDimensions or by an          *)
(* OutOfDate acquisition is back at the loop head without poll_events      *)
(* having run, the queued events left as they were.                        *)

C12_AfterIteration ==
    (AtBoundary /\ steps # <<>>) =>
        IF Range(steps) \cap FlushSteps # {}
          THEN /\ Last(steps) \in PollSteps
               /\ Cardinality({k \in 1..Len(steps) : steps[k] \in PollSteps}) = 1
               /\ steps[Len(steps) - 1] \in FlushSteps
          ELSE /\ pc = "top"
               /\ Last(steps) \in CutShortSteps
               /\ Range(steps) \cap PollSteps = {}

C12_PollsAfterFlush ==
    [][ /\ C12_AfterIteration'
        /\ (pc = "poll" /\ pc' # pc) =>
              /\ events' = <<>>
              /\ (pc' = "terminated") = CloseSeen(events)
        /\ (steps' # steps /\ Last(steps') \in CutShortSteps) =>
              UNCHANGED events ]_vars

C12_Witness ==
    /\ pc = "top"
    /\ steps = <<"no_recreate", "acquire_out_of_date">>
    /\ CloseSeen(events)
    /\ prev_steps # <<>>
    /\ Last(prev_steps) = "poll"

(* C13: an acquire_next_image error other than OutOfDate and a             *)
(* recreate_with_dimension error other than UnsupportedDimensions abort    *)
(* the process at that step: it is the last step taken, nothing has been   *)
(* submitted or presented in that iteration and poll_events has not run.   *)

FatalResults == {"acquire_fatal", "recreate_fatal"}

C13_FatalAborts ==
    \A k \in 1..Len(steps) :
        steps[k] \in FatalResults =>
            /\ k = Len(steps)
            /\ pc = "aborted"
            /\ submitted = iter_start.submitted
            /\ presented = iter_start.presented
            /\ previous_frame_end = iter_start.token

C13_Witness ==
    /\ pc = "aborted"
    /\ steps = <<"recreate_ok", "acquire_fatal">>
    /\ CloseSeen(events)
    /\ iter < MaxIter

(* C14: the loop stops in two ways only: main returns, in an iteration     *)
(* whose poll_events saw a close request, or the process aborts on a fatal *)
(* error of recreation, acquisition or submission; OutOfDate,              *)
(* UnsupportedDimensions and the other flush errors never stop it.         *)

FatalSteps == {"capabilities_fatal", "recreate_fatal", "framebuffer_fatal",
               "acquire_fatal", "command_buffer_fatal", "execute_fatal"}
SoftSteps == {"recreate_unsupported", "acquire_out_of_date",
              "flush_out_of_date", "flush_error"}

C14_ExitsOnlyByCloseOrFatal ==
    /\ pc = "terminated" => Last(steps) = "poll_close"
    /\ pc = "aborted" => Last(steps) \in FatalSteps
    /\ (steps # <<>> /\ Last(steps) \in SoftSteps) => pc \in {"top", "poll"}

(* C16: acquire_next_image is never called while recreate_swapchain is   *)
(* set; the flag is set only by an OutOfDate result of the acquisition or  *)
(* of the flush, and cleared only by a recreation that succeeded; an       *)
(* iteration that starts with the flag set takes the recreation branch and *)
(* reaches the acquisition only with the chain recreated and the flag      *)
(* cleared.                                                                *)

C16_NoAcquireWhileStale ==
    [][ /\ pc' = "acquire" => ~recreate_swapchain'
        /\ (~recreate_swapchain /\ recreate_swapchain') =>
              /\ steps' # steps
              /\ Last(steps') \in {"acquire_out_of_date", "flush_out_of_date"}
        /\ (recreate_swapchain /\ ~recreate_swapchain') =>
              /\ iter' # iter
              /\ steps'[1] = "recreate_ok"
              /\ swapchain'.gen = swapchain.gen + 1
        /\ (recreate_swapchain /\ iter' # iter) =>
              /\ steps'[1] \in RecreateBlock
              /\ IF steps'[1] = "recreate_ok"
                   THEN /\ pc' \in {"acquire", "aborted"}
                        /\ ~recreate_swapchain'
                        /\ (pc' = "aborted") = (Last(steps') = "framebuffer_fatal")
                   ELSE pc' \in {"top", "aborted"} /\ recreate_swapchain' ]_vars

C16_Witness ==
    /\ pc = "acquire"
    /\ steps = <<"recreate_ok">>
    /\ iter_start.flag
    /\ "flush_out_of_date" \in Range(prev_steps)

(* C15: the extent asked of the chain is the surface's current extent when *)
(* the surface reports one, at startup and at every recreation, and an     *)
(* indeterminate extent at a recreation still yields an extent: the loop   *)
(* does not abort for it.                                                  *)

C15_ExtentAlwaysUsable ==
    /\ (iter = 0 /\ events = <<>> /\ surface_extent.some) =>
          swapchain.extent = surface_extent.v
    /\ (pc = "acquire" /\ steps = <<"recreate_ok">> /\ surface_extent.some) =>
          swapchain.extent = surface_extent.v
    /\ (steps # <<>> /\ steps[1] \in RecreateBlock \ {"capabilities_fatal"}
           /\ ~surface_extent.some) =>
          pc # "aborted"

----------------------------------------------------------------------------
(* C17: every submission uses resources of one chain generation: the       *)
(* render target it draws into, the chain its image index was acquired     *)
(* from and the chain it presents to are the same generation, which is the *)
(* current chain when the submission is made, and the viewport it binds    *)
(* has the current chain's extent; a later submission never uses an older  *)
(* generation than an earlier one.                                         *)

SingleGeneration(sub) ==
    /\ sub.command_buffer.framebuffer.image.gen = sub.present_chain
    /\ sub.command_buffer.framebuffer.image.index = sub.present_image
    /\ sub.acquired_from = sub.present_chain
    /\ sub.present_chain <= swapchain.gen

C17_SingleGeneration ==
    /\ \A k \in 1..Len(submissions) : SingleGeneration(submissions[k])
    /\ Len(submissions) = 2 =>
          submissions[1].present_chain <= submissions[2].present_chain
    /\ pc = "flush" =>
          /\ Last(submissions).present_chain = swapchain.gen
          /\ Last(submissions).command_buffer.framebuffer.image
                = images[image_num.v + 1]
          /\ Last(submissions).command_buffer.viewports
                = ViewportOf(swapchain.extent)

C17_Witness ==
    /\ pc = "flush"
    /\ Len(submissions) = 2
    /\ submissions[1].present_chain < submissions[2].present_chain
    /\ submissions[1].command_buffer.viewports
          # submissions[2].command_buffer.viewports

----------------------------------------------------------------------------
(* C18, as stated: an iteration cut short by an OutOfDate acquisition      *)
(* leaves chain, render targets and token as they were when the iteration  *)
(* began and only sets the flag; an iteration cut short by                 *)
(* UnsupportedDimensions leaves chain, render targets, flag and token as   *)
(* they were when it began.                                                *)

C18_CutShortChangesNothing ==
    (pc = "top" /\ steps # <<>> /\ Last(steps) \in CutShortSteps) =>
        /\ swapchain.gen = iter_start.generation
        /\ framebuffers.some = iter_start.built
        /\ previous_frame_end = iter_start.token
        /\ submitted = iter_start.submitted
        /\ recreate_swapchain
        /\ Last(steps) = "recreate_unsupported" => iter_start.flag

(* C18, amended: the OutOfDate arm of the acquisition itself changes only  *)
(* the flag, but the iteration it ends has already been through the chain  *)
(* check, which replaced the chain, render targets and viewport when the   *)
(* flag was set and built the render targets when there were none; the     *)
(* UnsupportedDimensions iteration changes none of chain, render targets,  *)
(* viewport, flag or token.  In both cases the token is the one the        *)
(* iteration began with, nothing is submitted, no window event is drained  *)
(* and a pending close request stays pending.                              *)

C18_CutShortEffects ==
    [][ /\ (steps' # steps /\ Last(steps') = "acquire_out_of_date") =>
              /\ pc' = "top"
              /\ recreate_swapchain'
              /\ UNCHANGED <<swapchain, images, framebuffers, dynamic_state,
                             previous_frame_end, events, submissions,
                             submitted, consumed, presented>>
              /\ previous_frame_end' = iter_start'.token
              /\ submitted' = iter_start'.submitted
              /\ framebuffers'.some
              /\ (swapchain'.gen # iter_start'.generation)
                    = (steps'[1] = "recreate_ok")
              /\ CloseSeen(events') = CloseSeen(events)
        /\ (iter' # iter /\ steps'[1] = "recreate_unsupported") =>
              /\ pc' = "top"
              /\ recreate_swapchain
              /\ UNCHANGED <<swapchain, images, framebuffers, dynamic_state,
                             recreate_swapchain, previous_frame_end, events,
                             submissions, submitted, consumed, presented>>
              /\ CloseSeen(events') = CloseSeen(events) ]_vars

C18_Witness ==
    /\ pc = "top"
    /\ steps = <<"recreate_ok", "acquire_out_of_date">>
    /\ swapchain.gen # iter_start.generation
    /\ previous_frame_end = iter_start.token
    /\ previous_frame_end.kind = "fence"
    /\ recreate_swapchain
    /\ CloseSeen(events)

----------------------------------------------------------------------------
(* C19: under weak fairness of the loop, an iteration that has a close     *)
(* request pending ends by returning, by a panic, or cut short by          *)
(* UnsupportedDimensions or by an OutOfDate acquisition with the request   *)
(* still pending; so the loop terminates once a close request is delivered *)
(* unless one of the two keeps happening.  After an iteration cut short by *)
(* UnsupportedDimensions the same arm can be taken again, with nothing     *)
(* counting the retries, and the close request is not looked at.           *)

Exited == pc \in {"terminated", "aborted"}
InIteration == pc \in {"acquire", "submit", "flush", "poll"}

\* iteration n is over: the loop has exited, or the iteration was cut short
\* and the close request is still in the queue
Outcome(n) ==
    /\ iter = n
    /\ \/ Exited
       \/ /\ pc = "top"
          /\ Last(steps) \in CutShortSteps
          /\ CloseSeen(events)

C19_CloseEventuallyTerminates ==
    /\ \A n \in 0..(MaxIter - 1) :
          (pc = "top" /\ iter = n /\ CloseSeen(events)) ~> Outcome(n + 1)
    /\ \A n \in 1..MaxIter :
          (InIteration /\ iter = n /\ CloseSeen(events)) ~> Outcome(n)
    /\ [](pc = "poll" /\ CloseSeen(events) => ENABLED <<PollEvents>>_vars)
    /\ []((pc = "top" /\ iter < MaxIter /\ steps = <<"recreate_unsupported">>
             /\ surface_extent.some)
           => ENABLED <<RecreateUnsupported>>_vars)

C19_Witness ==
    /\ pc = "top"
    /\ iter = MaxIter
    /\ steps = <<"recreate_unsupported">>
    /\ prev_steps = <<"recreate_unsupported">>
    /\ CloseSeen(events)
    /\ recreate_swapchain

====
